---- MODULE Spec2Model ----
(***************************************************************************)
(* Static type-tagging layer of rasn (src/types.rs).                       *)
(*                                                                         *)
(* Every `impl AsnType for ...` / `impl SequenceOf for ...` item of the    *)
(* file is one operator; it takes the resolution of the type parameter(s)  *)
(* and yields the resolution of the constructed type.  A type expression   *)
(* is built one constructor at a time (Vec<_>, Option<_>, ...), and the    *)
(* state records, for the expression and each of its nested parts, whether *)
(* it implements AsnType, its TAG, and whether it implements SequenceOf.   *)
(***************************************************************************)
EXTENDS Naturals, Sequences, FiniteSets

\* ------------------------------------------------------------------ bounds
\* Largest number of type constructors applied around a base type.
MaxDepth == 2
\* Largest length N of a fixed-size array [T; N].
MaxArrayLen == 1

\* --------------------------------------------------------------------- Tag
\* `Tag` is defined in super::tag, which is not part of the source at hand:
\* a (class, number) pair with the ITU-T X.680 Universal class numbering.
Tag(class, value) == [class |-> class, value |-> value]

EOC == Tag("Universal", 0)
BOOL == Tag("Universal", 1)
INTEGER == Tag("Universal", 2)
BIT_STRING == Tag("Universal", 3)
OCTET_STRING == Tag("Universal", 4)
NULL == Tag("Universal", 5)
OBJECT_IDENTIFIER == Tag("Universal", 6)
UTF8_STRING == Tag("Universal", 12)
SEQUENCE == Tag("Universal", 16)
SET == Tag("Universal", 17)
IA5_STRING == Tag("Universal", 22)
UTC_TIME == Tag("Universal", 23)
GENERALIZED_TIME == Tag("Universal", 24)

\* The value standing for "no TAG": the type does not implement AsnType.
NoTag == Tag("None", 0)

\* ----------------------------------------------------------- resolutions
\* What the compiler knows of a type: asn = it implements AsnType, TAG = its
\* associated constant (NoTag when asn is FALSE).
Impl(tag) == [asn |-> TRUE, TAG |-> tag]
NoImpl == [asn |-> FALSE, TAG |-> NoTag]

\* ------------------------------------------------------- asn_type! { ... }
\* The invocation of the macro, one <<type, tag>> pair per line of it.
asn_type_swapped_time ==
    { <<"bool", BOOL>>,
      <<"i8", INTEGER>>, <<"i16", INTEGER>>, <<"i32", INTEGER>>,
      <<"i64", INTEGER>>, <<"i128", INTEGER>>, <<"isize", INTEGER>>,
      <<"u8", INTEGER>>, <<"u16", INTEGER>>, <<"u32", INTEGER>>,
      <<"u64", INTEGER>>, <<"u128", INTEGER>>, <<"usize", INTEGER>>,
      <<"Integer", INTEGER>>,
      <<"OctetString", OCTET_STRING>>,
      <<"ObjectIdentifier", OBJECT_IDENTIFIER>>,
      <<"Oid", OBJECT_IDENTIFIER>>,
      <<"ConstOid", OBJECT_IDENTIFIER>>,
      <<"BitString", BIT_STRING>>,
      <<"Utf8String", UTF8_STRING>>,
      <<"UtcTime", GENERALIZED_TIME>>,
      <<"GeneralizedTime", GENERALIZED_TIME>>,
      <<"()", NULL>>,
      <<"&str", UTF8_STRING>> }

asn_type_wide_octet ==
    { <<"bool", BOOL>>,
      <<"i8", INTEGER>>, <<"i16", INTEGER>>, <<"i32", INTEGER>>,
      <<"i64", INTEGER>>, <<"i128", INTEGER>>, <<"isize", INTEGER>>,
      <<"u8", INTEGER>>, <<"u16", INTEGER>>, <<"u32", INTEGER>>,
      <<"u64", INTEGER>>, <<"u128", OCTET_STRING>>, <<"usize", INTEGER>>,
      <<"Integer", INTEGER>>,
      <<"OctetString", OCTET_STRING>>,
      <<"ObjectIdentifier", OBJECT_IDENTIFIER>>,
      <<"Oid", OBJECT_IDENTIFIER>>,
      <<"ConstOid", OBJECT_IDENTIFIER>>,
      <<"BitString", BIT_STRING>>,
      <<"Utf8String", UTF8_STRING>>,
      <<"UtcTime", UTC_TIME>>,
      <<"GeneralizedTime", GENERALIZED_TIME>>,
      <<"()", NULL>>,
      <<"&str", UTF8_STRING>> }

asn_type_unit_eoc ==
    { <<"bool", BOOL>>,
      <<"i8", INTEGER>>, <<"i16", INTEGER>>, <<"i32", INTEGER>>,
      <<"i64", INTEGER>>, <<"i128", INTEGER>>, <<"isize", INTEGER>>,
      <<"u8", INTEGER>>, <<"u16", INTEGER>>, <<"u32", INTEGER>>,
      <<"u64", INTEGER>>, <<"u128", INTEGER>>, <<"usize", INTEGER>>,
      <<"Integer", INTEGER>>,
      <<"OctetString", OCTET_STRING>>,
      <<"ObjectIdentifier", OBJECT_IDENTIFIER>>,
      <<"Oid", OBJECT_IDENTIFIER>>,
      <<"ConstOid", OBJECT_IDENTIFIER>>,
      <<"BitString", BIT_STRING>>,
      <<"Utf8String", UTF8_STRING>>,
      <<"UtcTime", UTC_TIME>>,
      <<"GeneralizedTime", GENERALIZED_TIME>>,
      <<"()", EOC>>,
      <<"&str", UTF8_STRING>> }

asn_type ==
    { <<"bool", BOOL>>,
      <<"i8", INTEGER>>,
      <<"i16", INTEGER>>,
      <<"i32", INTEGER>>,
      <<"i64", INTEGER>>,
      <<"i128", INTEGER>>,
      <<"isize", INTEGER>>,
      <<"u8", INTEGER>>,
      <<"u16", INTEGER>>,
      <<"u32", INTEGER>>,
      <<"u64", INTEGER>>,
      <<"u128", INTEGER>>,
      <<"usize", INTEGER>>,
      <<"Integer", INTEGER>>,
      <<"OctetString", OCTET_STRING>>,
      <<"ObjectIdentifier", OBJECT_IDENTIFIER>>,
      <<"Oid", OBJECT_IDENTIFIER>>,
      <<"ConstOid", OBJECT_IDENTIFIER>>,
      <<"BitString", BIT_STRING>>,
      <<"Utf8String", UTF8_STRING>>,
      <<"UtcTime", UTC_TIME>>,
      <<"GeneralizedTime", GENERALIZED_TIME>>,
      <<"()", NULL>>,
      <<"&str", UTF8_STRING>> }

\* The types the macro is invoked on.
Primitives == { p[1] : p \in asn_type }

\* The tags the macro's impls give the type `name` (one impl per pair).
PrimitiveTags(name) == { p[2] : p \in { q \in asn_type : q[1] = name } }

\* A type deriving AsnType for a CHOICE: by the trait's documentation its
\* TAG is set to Tag::EOC.
Choice_AsnType == Impl(EOC)

\* Resolution of a type that is not built by a constructor of this file:
\* a primitive of asn_type!, a CHOICE type ("Choice"), or a type with no
\* impl at all ("Plain", a user struct without an AsnType impl).
Base_AsnType(name) ==
    IF name = "Choice" THEN Choice_AsnType
    ELSE IF PrimitiveTags(name) = {} THEN NoImpl
    ELSE Impl(CHOOSE t \in PrimitiveTags(name) : TRUE)

\* ------------------------------------------------------ impl AsnType for
\* impl<T: AsnType> AsnType for alloc::vec::Vec<T>
Vec_AsnType(T) == IF T.asn THEN Impl(SEQUENCE) ELSE NoImpl

\* impl<T: AsnType> AsnType for Option<T>
Option_AsnType_Null(T) == IF T.asn THEN Impl(NULL) ELSE NoImpl

Option_AsnType(T) == IF T.asn THEN Impl(T.TAG) ELSE NoImpl

\* impl<T> AsnType for SetOf<T>
SetOf_AsnType_Sequence(T) == Impl(SEQUENCE)

SetOf_AsnType(T) == Impl(SET)

\* impl<T: AsnType, const N: usize> AsnType for [T; N]
Array_AsnType(T, N) == IF T.asn THEN Impl(SEQUENCE) ELSE NoImpl

\* impl<T> AsnType for &'_ [T]
SliceRef_AsnType(T) == Impl(SEQUENCE)

\* impl<const TAG: Tag, V> AsnType for Implicit<TAG, V>
Implicit_AsnType_Inner(TAG, V) == IF V.asn THEN Impl(V.TAG) ELSE Impl(TAG)

Implicit_AsnType(TAG, V) == Impl(TAG)

\* impl<const TAG: Tag, V> AsnType for Explicit<TAG, V>
Explicit_AsnType_Inner(TAG, V) == IF V.asn THEN Impl(V.TAG) ELSE Impl(TAG)

Explicit_AsnType(TAG, V) == Impl(TAG)

\* impl<K, V> AsnType for alloc::collections::BTreeMap<K, V>
BTreeMap_AsnType_Set(K, V) == Impl(SET)

BTreeMap_AsnType(K, V) == Impl(SEQUENCE)

\* The unsized slice [T] has no AsnType impl in the file (only &[T] has).
Slice_AsnType(T) == NoImpl

\* --------------------------------------------------- impl SequenceOf for
\* impl<A: AsnType> SequenceOf for alloc::vec::Vec<A> {}
Vec_SequenceOf(A) == A.asn

\* impl<A: AsnType, const N: usize> SequenceOf for [A; N] {}
Array_SequenceOf(A, N) == A.asn

\* impl<A: AsnType> SequenceOf for [A] {}
Slice_SequenceOf(A) == A.asn

\* No impl of SequenceOf exists for any other type: &[T], Option, SetOf,
\* BTreeMap, Implicit, Explicit, the primitives.
No_SequenceOf == FALSE

\* ------------------------------------------------------------------ state
\* ty:  the type expression, outermost constructor first, base type last.
\* res: res[i] is the resolution of the sub-expression starting at ty[i].
VARIABLES ty, res
vars == <<ty, res>>

\* A constructor layer: ctor names the constructor, name the base type or
\* the key type K of a BTreeMap, tag the TAG parameter of a prefix wrapper,
\* len the N of an array.
Layer(ctor, name, tag, len) ==
    [ctor |-> ctor, name |-> name, tag |-> tag, len |-> len]

\* A resolution extended with the SequenceOf marker.
Res(impl, seqof) == [asn |-> impl.asn, TAG |-> impl.TAG, seqof |-> seqof]

\* Base types: every primitive of asn_type!, a CHOICE type, a type without
\* an AsnType impl.
BaseTypes == Primitives \cup {"Choice", "Plain"}

\* TAG parameters tried for the prefix wrappers: a context and an application
\* tag, the Universal tag of the IA5String alias, a Universal tag that a
\* primitive has too, and the sentinel.
TagParams ==
    { Tag("Context", 0), Tag("Application", 1), IA5_STRING, INTEGER, EOC }

\* Key types tried for BTreeMap<K, V>: one representable, one not.
KeyTypes == {"Utf8String", "Plain"}

\* Type parameters of the impls are implicitly Sized: the unsized slice
\* [A] can be the argument of none of them.
Sized == Head(ty).ctor # "Slice"

CanWrap == Len(ty) <= MaxDepth /\ Sized

Push(layer, r) ==
    /\ ty' = <<layer>> \o ty
    /\ res' = <<r>> \o res

Init ==
    \E name \in BaseTypes :
        /\ ty = <<Layer("Base", name, NoTag, 0)>>
        /\ res = <<Res(Base_AsnType(name), No_SequenceOf)>>

WrapVec ==
    /\ CanWrap
    /\ Push(Layer("Vec", "", NoTag, 0),
            Res(Vec_AsnType(Head(res)), Vec_SequenceOf(Head(res))))

WrapOption ==
    /\ CanWrap
    /\ Push(Layer("Option", "", NoTag, 0),
            Res(Option_AsnType(Head(res)), No_SequenceOf))

WrapSetOf ==
    /\ CanWrap
    /\ Push(Layer("SetOf", "", NoTag, 0),
            Res(SetOf_AsnType(Head(res)), No_SequenceOf))

WrapArray ==
    /\ CanWrap
    /\ \E N \in 0..MaxArrayLen :
          Push(Layer("Array", "", NoTag, N),
               Res(Array_AsnType(Head(res), N), Array_SequenceOf(Head(res), N)))

WrapSliceRef ==
    /\ CanWrap
    /\ Push(Layer("SliceRef", "", NoTag, 0),
            Res(SliceRef_AsnType(Head(res)), No_SequenceOf))

WrapSlice ==
    /\ CanWrap
    /\ Push(Layer("Slice", "", NoTag, 0),
            Res(Slice_AsnType(Head(res)), Slice_SequenceOf(Head(res))))

WrapImplicit ==
    /\ CanWrap
    /\ \E X \in TagParams :
          Push(Layer("Implicit", "", X, 0),
               Res(Implicit_AsnType(X, Head(res)), No_SequenceOf))

WrapExplicit ==
    /\ CanWrap
    /\ \E X \in TagParams :
          Push(Layer("Explicit", "", X, 0),
               Res(Explicit_AsnType(X, Head(res)), No_SequenceOf))

WrapBTreeMap ==
    /\ CanWrap
    /\ \E K \in KeyTypes :
          Push(Layer("BTreeMap", K, NoTag, 0),
               Res(BTreeMap_AsnType(Base_AsnType(K), Head(res)), No_SequenceOf))

Next ==
    \/ WrapVec
    \/ WrapOption
    \/ WrapSetOf
    \/ WrapArray
    \/ WrapSliceRef
    \/ WrapSlice
    \/ WrapImplicit
    \/ WrapExplicit
    \/ WrapBTreeMap

Spec == Init /\ [][Next]_vars

\* ---------------------------------------------------------------- helpers
Idx == 1..Len(ty)
\* The positions that hold a constructor (every one but the base type).
Wrapped == 1..(Len(ty) - 1)
Top == Head(res)
BaseName == ty[Len(ty)].name

IntegerTypes ==
    { "i8", "i16", "i32", "i64", "i128", "isize",
      "u8", "u16", "u32", "u64", "u128", "usize", "Integer" }

\* The row of the binding table a primitive type belongs to.
Row(name) ==
    CASE name = "bool" -> "Boolean"
      [] name \in IntegerTypes -> "Integer"
      [] name = "OctetString" -> "OctetString"
      [] name \in {"ObjectIdentifier", "Oid", "ConstOid"} -> "ObjectIdentifier"
      [] name = "BitString" -> "BitString"
      [] name \in {"Utf8String", "&str"} -> "Utf8String"
      [] name = "()" -> "Unit"
      [] name = "UtcTime" -> "UtcTime"
      [] name = "GeneralizedTime" -> "GeneralizedTime"
      [] OTHER -> "none"

\* The tag the binding table gives a row.
RowTag(row) ==
    CASE row = "Boolean" -> BOOL
      [] row = "Integer" -> INTEGER
      [] row = "OctetString" -> OCTET_STRING
      [] row = "ObjectIdentifier" -> OBJECT_IDENTIFIER
      [] row = "BitString" -> BIT_STRING
      [] row = "Utf8String" -> UTF8_STRING
      [] row = "Unit" -> NULL
      [] row = "UtcTime" -> UTC_TIME
      [] row = "GeneralizedTime" -> GENERALIZED_TIME
      [] OTHER -> NoTag

\* ------------------------------------------------------------------ claims

\* C1: for every tag X and every inner type (an Option, a collection,
\* another prefix wrapper with a different tag, a type without any impl),
\* Implicit<X, Inner> implements AsnType and its TAG is X, whatever the
\* inner type's TAG is.
C1_ImplicitTagIsDeclared ==
    \A i \in Wrapped :
        ty[i].ctor = "Implicit" => res[i].asn /\ res[i].TAG = ty[i].tag

\* Implicit<X, Explicit<Y, _>> with Y # X, resolved to X.
C1_Witness ==
    /\ Len(ty) >= 3
    /\ ty[1].ctor = "Implicit"
    /\ ty[2].ctor = "Explicit"
    /\ ty[2].tag # ty[1].tag
    /\ res[2].TAG # res[1].TAG
    /\ res[1].TAG = ty[1].tag

\* C2: wrapping a representable Inner in Explicit<X, _> gives a type whose
\* TAG is X, and leaves Inner's own resolution as it was before the
\* wrapping: Inner::TAG is still defined, with the same value.
C2_ExplicitTagIsDeclaredInnerKept ==
    [][ (WrapExplicit /\ Head(res).asn) =>
          /\ Head(res').asn
          /\ Head(res').TAG = Head(ty').tag
          /\ res'[2].asn
          /\ res'[2].TAG = Head(res).TAG ]_vars

\* Explicit<X, Inner> with Inner representable and Inner::TAG # X.
C2_Witness ==
    /\ Len(ty) >= 2
    /\ ty[1].ctor = "Explicit"
    /\ res[2].asn
    /\ res[2].TAG # ty[1].tag
    /\ res[1].TAG = ty[1].tag

\* C3: Option<T>::TAG = T::TAG for every representable T, through nesting:
\* Option<Option<T>>::TAG = T::TAG, Option<Vec<U>>::TAG = SEQUENCE,
\* Option<Implicit<X, U>>::TAG = Option<Explicit<X, U>>::TAG = X.
C3_OptionKeepsTag ==
    \A i \in Wrapped :
        (ty[i].ctor = "Option" /\ res[i + 1].asn) =>
            /\ res[i].asn
            /\ res[i].TAG = res[i + 1].TAG
            /\ (ty[i + 1].ctor = "Option" /\ res[i + 2].asn)
                  => res[i].TAG = res[i + 2].TAG
            /\ ty[i + 1].ctor = "Vec" => res[i].TAG = SEQUENCE
            /\ ty[i + 1].ctor \in {"Implicit", "Explicit"}
                  => res[i].TAG = ty[i + 1].tag

\* Option<Option<bool>>, resolved to BOOL.
C3_Witness ==
    /\ Len(ty) = 3
    /\ ty[1].ctor = "Option"
    /\ ty[2].ctor = "Option"
    /\ ty[3].name = "bool"
    /\ res[1].asn
    /\ res[1].TAG = BOOL

\* C4: the tag of a collection of representable T depends on the container
\* only: SetOf<T> is SET, Vec<T> is SEQUENCE (for one and the same T too),
\* [T; N] for every N and &[T] are SEQUENCE.
C4_CollectionTagByContainer ==
    /\ \A i \in Wrapped :
          res[i + 1].asn =>
            /\ ty[i].ctor = "SetOf" => res[i].asn /\ res[i].TAG = SET
            /\ ty[i].ctor = "Vec" => res[i].asn /\ res[i].TAG = SEQUENCE
            /\ ty[i].ctor = "Array" => res[i].asn /\ res[i].TAG = SEQUENCE
            /\ ty[i].ctor = "SliceRef" => res[i].asn /\ res[i].TAG = SEQUENCE
    /\ Top.asn =>
          /\ SetOf_AsnType(Top) = Impl(SET)
          /\ Vec_AsnType(Top) = Impl(SEQUENCE)
          /\ \A N \in 0..MaxArrayLen : Array_AsnType(Top, N) = Impl(SEQUENCE)
          /\ SliceRef_AsnType(Top) = Impl(SEQUENCE)

\* SetOf<Vec<T>>: the set resolved to SET, the sequence in it to SEQUENCE.
C4_Witness ==
    /\ Len(ty) = 3
    /\ ty[1].ctor = "SetOf"
    /\ ty[2].ctor = "Vec"
    /\ res[3].asn
    /\ res[1].TAG = SET
    /\ res[2].TAG = SEQUENCE

\* C5: every integer type (i8 .. i128, isize, u8 .. u128, usize, Integer)
\* implements AsnType with TAG = INTEGER and has no other tag.
C5_IntegersAreINTEGER ==
    /\ IntegerTypes \subseteq Primitives
    /\ BaseName \in IntegerTypes =>
          /\ res[Len(ty)].asn
          /\ res[Len(ty)].TAG = INTEGER
          /\ PrimitiveTags(BaseName) = {INTEGER}

\* Vec<u128>: the widest unsigned integer, resolved to INTEGER as the
\* element type of a sequence.
C5_Witness ==
    /\ Len(ty) = 2
    /\ ty[1].ctor = "Vec"
    /\ res[1].asn
    /\ BaseName = "u128"
    /\ res[Len(ty)].asn
    /\ res[Len(ty)].TAG = INTEGER

\* C6: BTreeMap<K, V> with V representable resolves to SEQUENCE whatever
\* K (representable or not) and V::TAG are.
C6_MapIsSequence ==
    \A i \in Wrapped :
        (ty[i].ctor = "BTreeMap" /\ res[i + 1].asn) =>
            /\ res[i].asn
            /\ res[i].TAG = SEQUENCE
            /\ \A K \in BaseTypes :
                  BTreeMap_AsnType(Base_AsnType(K), res[i + 1]) = Impl(SEQUENCE)

\* A map with a key type that has no AsnType impl and a value type whose
\* TAG is not SEQUENCE.
C6_Witness ==
    /\ Len(ty) >= 2
    /\ ty[1].ctor = "BTreeMap"
    /\ ty[1].name = "Plain"
    /\ res[2].asn
    /\ res[2].TAG # SEQUENCE
    /\ res[1].TAG = SEQUENCE

\* C7: every non-integer primitive has the tag of its row of the binding
\* table (bool BOOLEAN, OctetString OCTET_STRING, the three object
\* identifier forms OBJECT_IDENTIFIER, BitString BIT_STRING, Utf8String and
\* &str UTF8_STRING, () NULL, UtcTime UTC_TIME, GeneralizedTime
\* GENERALIZED_TIME), exactly one tag, and types of different rows have
\* different tags.
C7_PrimitiveBindings ==
    (BaseName \in Primitives \ IntegerTypes) =>
        /\ res[Len(ty)].asn
        /\ res[Len(ty)].TAG = RowTag(Row(BaseName))
        /\ Cardinality(PrimitiveTags(BaseName)) = 1
        /\ \A q \in asn_type :
              Row(q[1]) # Row(BaseName) => q[2] # res[Len(ty)].TAG

\* Option<UtcTime>: UtcTime resolved to UTC_TIME (and not to
\* GeneralizedTime's tag), and so the Option around it.
C7_Witness ==
    /\ Len(ty) = 2
    /\ ty[1].ctor = "Option"
    /\ res[1].TAG = UTC_TIME
    /\ BaseName = "UtcTime"
    /\ res[Len(ty)].TAG = UTC_TIME
    /\ res[Len(ty)].TAG # GENERALIZED_TIME

\* C8: SequenceOf marks exactly Vec<T>, [T; N] and slices of representable
\* T: a marked type implements AsnType with TAG = SEQUENCE, a Vec, array or
\* borrowed slice that implements AsnType is marked, SetOf and BTreeMap are
\* not marked.
C8_MarkerMatchesContract ==
    \A i \in Idx :
        /\ res[i].seqof =>
              /\ ty[i].ctor \in {"Vec", "Array", "Slice", "SliceRef"}
              /\ res[i].asn
              /\ res[i].TAG = SEQUENCE
        /\ (ty[i].ctor \in {"Vec", "Array", "SliceRef"} /\ res[i].asn)
              => res[i].seqof
        /\ ty[i].ctor \in {"SetOf", "BTreeMap"} => ~res[i].seqof

\* The positions from i inwards that are reached through Option only.
ThroughOptions(i) ==
    { j \in i..Len(ty) : \A k \in i..(j - 1) : ty[k].ctor = "Option" }

\* The sub-expression at i is a CHOICE type, possibly optional.
IsChoice(i) ==
    \E j \in ThroughOptions(i) : ty[j].ctor = "Base" /\ ty[j].name = "Choice"

\* The sub-expression at i is, possibly under Options, a prefix wrapper
\* whose declared TAG parameter is the sentinel itself.
IsSentinelPrefix(i) ==
    \E j \in ThroughOptions(i) :
        ty[j].ctor \in {"Implicit", "Explicit"} /\ ty[j].tag = EOC

\* C9 as stated: a CHOICE type has the sentinel tag, no primitive or
\* collection rule gives the sentinel, and a type whose resolved tag is the
\* sentinel is always a CHOICE.
C9_SentinelOnlyChoice ==
    /\ BaseName = "Choice" => res[Len(ty)].TAG = EOC
    /\ \A p \in asn_type : p[2] # EOC
    /\ \A i \in Idx : (res[i].asn /\ res[i].TAG = EOC) => IsChoice(i)

\* C9 amended: a CHOICE type has the sentinel tag, no primitive or
\* collection rule gives the sentinel, and a type whose resolved tag is the
\* sentinel is a CHOICE or a prefix wrapper declared with the sentinel as
\* its TAG parameter (either possibly inside Option).
C9_SentinelChoiceOrDeclared ==
    /\ BaseName = "Choice" =>
          res[Len(ty)].asn /\ res[Len(ty)].TAG = EOC
    /\ \A p \in asn_type : p[2] # EOC
    /\ EOC \notin {SEQUENCE, SET}
    /\ \A i \in Idx :
          (res[i].asn /\ res[i].TAG = EOC) =>
              IsChoice(i) \/ IsSentinelPrefix(i)

\* Option<Choice>, resolved to the sentinel.
C9_Witness ==
    /\ Len(ty) = 2
    /\ ty[1].ctor = "Option"
    /\ ty[2].name = "Choice"
    /\ res[1].asn
    /\ res[1].TAG = EOC

\* C10: a collection implements AsnType only if its element type (for a
\* BTreeMap its value type) does.
C10_CollectionNeedsRepresentableElement ==
    \A i \in Wrapped :
        (ty[i].ctor \in {"Vec", "Array", "SliceRef", "SetOf", "BTreeMap"}
            /\ res[i].asn) => res[i + 1].asn

====
